---- MODULE Spec2Model ----
(***************************************************************************)
(* TrackletReconstruction (h5flow_modules/combined/tracklet_reco.py).      *)
(*                                                                         *)
(* One call of run() on a batch of events: find_tracks (the bounded        *)
(* cluster / fit / re-cluster / assign loop), calc_tracks (the nhit >= 2   *)
(* rule) and the relations run() writes.  Arrays of shape (N, M) are       *)
(* functions [0..N-1 -> [0..M-1 -> value]]; a numpy masked array is a      *)
(* data function with a mask function (TRUE = masked).                     *)
(*                                                                         *)
(* The two library calls are modelled by what the libraries do:            *)
(*  - sklearn DBSCAN.fit: input validation (a non-finite value raises      *)
(*    ValueError), closed eps-neighbourhoods, core points, clusters grown  *)
(*    from the unlabelled core points in index order;                      *)
(*  - skimage ransac with LineModelND and min_samples = 2: max_trials     *)
(*    trials, each the consensus set (residual < threshold) of the line    *)
(*    through a randomly drawn pair of points; the trial with the most     *)
(*    inliers, then the smallest sum of squared residuals, is kept, and    *)
(*    None is returned when the kept trial has no inlier.  The draws are   *)
(*    a nondeterministic choice, since _do_ransac passes no random state.  *)
(* Coordinates are integers, so distances are compared squared.            *)
(***************************************************************************)
EXTENDS Integers, Sequences, FiniteSets, TLC

\* ------------------------------------------------------------------ bounds
MaxEvents == 2
MaxHits == 5
MaxCells == 6
MaxMinSamples == 2
MaxIterations == 2
MaxPrior == 1
\* xyp: components of axis and centroid lie in -MaxCoord .. MaxCoord
MaxCoord == 2
Pitch == 16

\* ------------------------------------------------- configuration defaults
default_dbscan_eps == 25
default_ransac_min_samples == 2
default_ransac_residual_threshold == 8
default_ransac_max_trials == 100

VARIABLES
    hits,                \* cache[hits_dset_name]: [i][h] -> [valid, id, px, py]
    geom,                \* Geometry.get_z_coordinate result per hit: [z, fin]
    dbscan_min_samples,  \* self._dbscan_min_samples
    max_iterations,      \* self.max_iterations
    ransac_residual_threshold,  \* self._ransac_residual_threshold
    pc,                  \* position in run / find_tracks
    iter_mask,           \* find_tracks: eligibility mask, shape (N, M)
    track_id,            \* find_tracks: id array, shape (N, M)
    i,                   \* find_tracks: event index of the outer loop
    current_track_id,    \* find_tracks: per-event id counter
    it,                  \* find_tracks: rounds of the current event already run
    track_ids,           \* find_tracks: labels of the round's first dbscan
    todo,                \* labels of np.unique(track_ids) not yet visited
    mask,                \* find_tracks: the cluster / inlier / sub-cluster mask
    final_track_ids,     \* find_tracks: labels of the re-clustering
    subtodo,             \* labels of np.unique(final_track_ids) not yet visited
    call,                \* the latest library call: [fn, ev, mask]
    ret,                 \* find_tracks' return value: [data, mask], <<>> before
    tracks,              \* calc_tracks' return value: [i][j] -> [masked, nhit, id]
    tracks_slice,        \* run: the reserved id range [start, stop], <<>> before
    hit_ref,             \* run: the (track id, hit id) pairs written
    ev_ref,              \* run: the (event id, track id) pairs written
    dset_len,            \* data manager: rows of the tracklet dataset, <<>> until
                         \* reserve_data first reads it
    source_slice,        \* run: first event id of source_slice, <<>> until line 127 reads it
    axis,                \* xyp: the axis argument, <<>> outside a call of xyp
    centroid,            \* xyp: the centroid argument
    xyp_ret,             \* xyp: the returned pair, <<>> before the return
    rounds,              \* per event, the rounds find_tracks has started
    run_no,              \* 1 in the first run on the cache, 2 in a repeated run
    first_ret            \* find_tracks' return value in the first run, <<>> before

vars == <<hits, geom, dbscan_min_samples, max_iterations,
          ransac_residual_threshold, pc, iter_mask,
          track_id, i, current_track_id, it, track_ids, todo, mask,
          final_track_ids, subtodo, call, ret, tracks, tracks_slice,
          hit_ref, ev_ref, source_slice, dset_len, rounds, run_no, first_ret,
          axis, centroid, xyp_ret>>

\* ------------------------------------------------------------------ shapes
NEv == Cardinality(DOMAIN hits)
NHit == Cardinality(DOMAIN hits[0])
Ev == 0 .. NEv - 1
Hit == 0 .. NHit - 1

\* a boolean row as the set of its TRUE positions
MaskSet(m) == {h \in DOMAIN m : m[h]}

\* np.sum(mask) / np.count_nonzero(mask) of a boolean row
np_sum(m) == Cardinality(MaskSet(m))

\* np.any(mask) of a boolean row
np_any(m) == \E h \in DOMAIN m : m[h]

Min(S) == CHOOSE x \in S : \A y \in S : x <= y
Max(S) == CHOOSE x \in S : \A y \in S : x >= y

\* ---------------------------------------------------------------- hit_xyz
\* lines 131-143: x, y are the hit's px, py; z is the geometry lookup's result
hit_xyz(hs, g) ==
    [e \in DOMAIN hs |-> [h \in DOMAIN hs[e] |->
        [x |-> hs[e][h].px, y |-> hs[e][h].py, z |-> g[e][h].z, fin |-> g[e][h].fin]]]

xyz == hit_xyz(hits, geom)

\* xyz[mask]: the selected rows, in index order, as a sequence (1-based)
RECURSIVE Compress(_, _, _)
Compress(row, S, h) ==
    IF h >= Cardinality(DOMAIN row) THEN <<>>
    ELSE IF h \in S THEN <<row[h]>> \o Compress(row, S, h + 1)
    ELSE Compress(row, S, h + 1)

\* position (1-based) of hit h among the selected hits S
Rank(S, h) == Cardinality({g \in S : g <= h})

\* arr = full(len(mask), fillv); arr[mask] = vals
Scatter(m, vals, fillv) ==
    [h \in DOMAIN m |-> IF m[h] THEN vals[Rank(MaskSet(m), h)] ELSE fillv]

\* ------------------------------------------------------------ DBSCAN.fit
Dist2(p, q) == (p.x - q.x) * (p.x - q.x) + (p.y - q.y) * (p.y - q.y)
               + (p.z - q.z) * (p.z - q.z)

HasNonFinite(X) == \E k \in DOMAIN X : ~X[k].fin

\* sklearn's check_array, run by DBSCAN.fit on its input: NaN or infinity in
\* X, or an X of no rows, raises ValueError
FitRaises(X) == Len(X) = 0 \/ HasNonFinite(X)

\* radius_neighbors: the closed eps-ball, the point itself included
Neighbors(X, k) ==
    {l \in DOMAIN X : Dist2(X[k], X[l]) <= default_dbscan_eps * default_dbscan_eps}

IsCore(X, k, ms) == Cardinality(Neighbors(X, k)) >= ms

\* dbscan_inner's depth-first growth from a core point: every unlabelled
\* point in the neighbourhood of a core point of the cluster joins it
RECURSIVE Expand(_, _, _, _)
Expand(X, ms, C, unl) ==
    LET new == {v \in unl \ C : \E u \in C : IsCore(X, u, ms) /\ v \in Neighbors(X, u)}
    IN IF new = {} THEN C ELSE Expand(X, ms, C \cup new, unl)

\* dbscan_inner: for k in range(n): an unlabelled core point seeds label_num
RECURSIVE DbscanInner(_, _, _, _, _)
DbscanInner(X, ms, k, label_num, labels) ==
    IF k > Len(X) THEN labels
    ELSE IF labels[k] # -1 \/ ~IsCore(X, k, ms)
         THEN DbscanInner(X, ms, k + 1, label_num, labels)
         ELSE LET C == Expand(X, ms, {k}, {l \in DOMAIN X : labels[l] = -1})
              IN DbscanInner(X, ms, k + 1, label_num + 1,
                             [l \in DOMAIN X |-> IF l \in C THEN label_num ELSE labels[l]])

DBSCAN_fit(X, ms) == DbscanInner(X, ms, 1, 0, [l \in DOMAIN X |-> -1])

\* lines 252-263
do_dbscan(row, m, ms) ==
    Scatter(m, DBSCAN_fit(Compress(row, MaskSet(m), 0), ms), -1)

\* np.unique(labels) without the noise label -1
Labels(lab) == {lab[h] : h \in DOMAIN lab} \ {-1}

\* ----------------------------------------------------------------- ransac
\* squared norm of (p - a) x (b - a)
Cross2(a, b, p) ==
    LET ux == p.x - a.x  uy == p.y - a.y  uz == p.z - a.z
        vx == b.x - a.x  vy == b.y - a.y  vz == b.z - a.z
        cx == uy * vz - uz * vy
        cy == uz * vx - ux * vz
        cz == ux * vy - uy * vx
    IN cx * cx + cy * cy + cz * cz

\* LineModelND.residuals < residual_threshold for the line through a and b:
\* no residual is below a threshold that is not positive
IsInlier(a, b, p, thr) ==
    thr > 0 /\ Cross2(a, b, p) < thr * thr * Dist2(a, b)

\* skimage ransac's argument check: min_samples must lie in (0, len(X));
\* releases without the check fail in the sampling when len(X) < min_samples
RansacRaises(X) == ~(0 < default_ransac_min_samples /\ default_ransac_min_samples < Len(X))

\* the samples a trial can draw: min_samples = 2 distinct rows of X
Samples(X) == {t \in (DOMAIN X) \X (DOMAIN X) : t[1] < t[2]}

\* the squared residuals of rows 1 .. k to the line through rows s, summed;
\* the common denominator is Dist2 of the two rows
RECURSIVE SumCross2(_, _, _)
SumCross2(X, s, k) ==
    IF k = 0 THEN 0
    ELSE Cross2(X[s[1]], X[s[2]], X[k]) + SumCross2(X, s, k - 1)

RECURSIVE GCD(_, _)
GCD(a, b) == IF b = 0 THEN a ELSE GCD(b, a % b)

\* one trial: the consensus set of the sampled line, its size, and the sum
\* of squared residuals of all rows as the fraction n / d in lowest terms
Trial(X, s, thr) ==
    LET inl == [k \in DOMAIN X |-> IsInlier(X[s[1]], X[s[2]], X[k], thr)]
        sum == SumCross2(X, s, Len(X))
        len == Dist2(X[s[1]], X[s[2]])
    IN [num |-> Cardinality({k \in DOMAIN X : inl[k]}),
        inf |-> FALSE,
        n |-> sum \div GCD(sum, len),
        d |-> len \div GCD(sum, len),
        inliers |-> inl,
        stopped |-> FALSE]

\* before the first trial: best_inlier_num = 0, best residual sum = inf,
\* best_inliers = None
NoBest(X) ==
    [num |-> 0, inf |-> TRUE, n |-> 0, d |-> 1,
     inliers |-> [k \in DOMAIN X |-> FALSE], stopped |-> FALSE]

\* a trial replaces the best one with more inliers, or with as many and a
\* smaller residual sum; the loop is left once the residual sum is 0
\* (stop_residuals_sum), the other stop criteria are off by default
KeepBest(best, t) ==
    IF best.stopped THEN best
    ELSE IF \/ t.num > best.num
            \/ t.num = best.num /\ (best.inf \/ t.n * best.d < best.n * t.d)
         THEN [t EXCEPT !.stopped = (t.n <= 0)]
         ELSE best

\* the best trials the loop can hold after n more trials, from those in R;
\* once a further trial changes nothing, no later trial does
RECURSIVE BestAfter(_, _, _)
BestAfter(T, R, n) ==
    IF n = 0 THEN R
    ELSE LET R2 == {KeepBest(best, t) : best \in R, t \in T}
         IN IF R2 = R THEN R ELSE BestAfter(T, R2, n - 1)

\* the inlier masks ransac can return on X after max_trials trials; a best
\* trial without inliers makes ransac return None, which mask[mask] = inliers
\* stores as False in every position
RansacOutcomes(X, thr) ==
    LET T == {Trial(X, s, thr) : s \in Samples(X)}
    IN {IF b.num = 0 THEN [k \in DOMAIN X |-> FALSE] ELSE b.inliers :
            b \in BestAfter(T, {NoBest(X)}, default_ransac_max_trials)}

\* variant: the inlier mask not applied to the cluster mask
ApplyInliersKeepAll(m, inliers) == m

\* lines 265-277 followed by line 180, mask[mask] = inliers
ApplyInliers(m, inliers) == Scatter(m, inliers, FALSE)

\* --------------------------------------------------- find_tracks, pieces
\* variant: the validity of the hits left out of the eligibility mask
InitIterMaskAllTrue(hs) == [e \in DOMAIN hs |-> [h \in DOMAIN hs[e] |-> TRUE]]

\* lines 157-158: eligible = not masked
InitIterMask(hs) == [e \in DOMAIN hs |-> [h \in DOMAIN hs[e] |-> hs[e][h].valid]]

\* line 159
InitTrackId(hs) == [e \in DOMAIN hs |-> [h \in DOMAIN hs[e] |-> -1]]

\* variant: no early continue for an event without eligible hits
NeverSkip(row) == FALSE

\* line 162: if not np.any(iter_mask[i]): continue
NothingEligible(row) == ~np_any(row)

\* line 165
ResetCounter == -1

\* variant: one round too many
RoundsExhaustedLate(n, maxit) == n > maxit

\* line 167: for _ in range(self.max_iterations) is exhausted after n rounds
RoundsExhausted(n, maxit) == n >= maxit

\* variant: only clusters smaller than ransac_min_samples skipped
SkipClusterBelow(m) == np_sum(m) < default_ransac_min_samples

\* line 175
SkipCluster(m) == np_sum(m) <= default_ransac_min_samples

\* line 174 / 191: mask = labels == id_
LabelMask(lab, id_) == [h \in DOMAIN lab |-> lab[h] = id_]

\* variant: the counter stops at the first id
NextTrackIdReuse(c) == IF c < 0 THEN 0 ELSE c

\* variant: an id left out at every allocation
NextTrackIdSkip(c) == c + 2

\* line 193
NextTrackId(c) == c + 1

\* variant: the id written to the masked columns of every event's row
AssignIdAllRows(arr, e, m, v) ==
    [r \in DOMAIN arr |-> [h \in DOMAIN arr[r] |-> IF m[h] THEN v ELSE arr[r][h]]]

\* line 194: track_id[i, mask] = current_track_id
AssignId(arr, e, m, v) ==
    [arr EXCEPT ![e] = [h \in DOMAIN @ |-> IF m[h] THEN v ELSE @[h]]]

\* variant: assigned hits left eligible
ClearEligibleNoop(arr, e, m) == arr

\* variant: the whole row of the event cleared
ClearEligibleRow(arr, e, m) ==
    [arr EXCEPT ![e] = [h \in DOMAIN @ |-> FALSE]]

\* line 195: iter_mask[i, mask] = False
ClearEligible(arr, e, m) ==
    [arr EXCEPT ![e] = [h \in DOMAIN @ |-> @[h] /\ ~m[h]]]

\* variant: the round loop left after every round
BreakRoundAlways(lab, elig) == TRUE

\* line 197
BreakRound(lab, elig) == (\A h \in DOMAIN lab : lab[h] = -1) \/ ~np_any(elig)

\* line 200: ma.array(track_id, mask=hits['id'].mask)
ReturnValue(tid, hs) ==
    [data |-> tid,
     mask |-> [e \in DOMAIN hs |-> [h \in DOMAIN hs[e] |-> ~hs[e][h].valid]]]

NoRow == [h \in Hit |-> -1]
NoMask == [h \in Hit |-> FALSE]
NoCall == [fn |-> "none", ev |-> -1, mask |-> {}]

\* ------------------------------------------------------------------- Init
Kinds == {"masked", "low", "high", "nonfinite"}

\* line 82: the configured residual threshold, the default or none at all
Thresholds == {0, default_ransac_residual_threshold}

InputHits(sel, m) ==
    [e \in DOMAIN sel |-> [h \in DOMAIN sel[e] |->
        [valid |-> sel[e][h] # "masked",
         id    |-> e * m + h,
         px    |-> Pitch * h,
         py    |-> IF sel[e][h] = "high" THEN Pitch ELSE 0]]]

InputGeom(sel) ==
    [e \in DOMAIN sel |-> [h \in DOMAIN sel[e] |->
        [z |-> 0, fin |-> sel[e][h] # "nonfinite"]]]

Init ==
    /\ \E n \in 1 .. MaxEvents, m \in 1 .. MaxHits :
         /\ n * m <= MaxCells
         /\ \E sel \in [0 .. n - 1 -> [0 .. m - 1 -> Kinds]] :
              /\ hits = InputHits(sel, m)
              /\ geom = InputGeom(sel)
    /\ dbscan_min_samples \in 1 .. MaxMinSamples
    /\ max_iterations \in 1 .. MaxIterations
    /\ ransac_residual_threshold \in Thresholds
    /\ pc = "find_tracks"
    /\ iter_mask = [e \in Ev |-> NoMask]
    /\ track_id = [e \in Ev |-> NoRow]
    /\ i = 0
    /\ current_track_id = -1
    /\ it = 0
    /\ track_ids = NoRow
    /\ todo = {}
    /\ mask = NoMask
    /\ final_track_ids = NoRow
    /\ subtodo = {}
    /\ call = NoCall
    /\ ret = <<>>
    /\ tracks = <<>>
    /\ tracks_slice = <<>>
    /\ hit_ref = {}
    /\ ev_ref = {}
    /\ source_slice = <<>>
    /\ dset_len = <<>>
    /\ rounds = [e \in Ev |-> 0]
    /\ run_no = 1
    /\ first_ret = <<>>
    /\ axis = <<>>
    /\ centroid = <<>>
    /\ xyp_ret = <<>>

\* what a run leaves as it found it: the cache, the configuration, and the
\* record of an earlier run; the arguments of a separate call of xyp are
\* no part of a run
xyp_call == <<axis, centroid, xyp_ret>>
input == <<hits, geom, dbscan_min_samples, max_iterations,
           ransac_residual_threshold, run_no, first_ret,
           xyp_call>>
output == <<ret, tracks, tracks_slice, hit_ref, ev_ref, source_slice, dset_len>>
round_locals == <<track_ids, todo, mask, final_track_ids, subtodo>>

\* ---------------------------------------------------- find_tracks, steps
\* lines 155-159
FindTracksBegin ==
    /\ pc = "find_tracks"
    /\ iter_mask' = InitIterMask(hits)
    /\ track_id' = InitTrackId(hits)
    /\ i' = 0
    /\ pc' = "event"
    /\ UNCHANGED <<input, output, round_locals, current_track_id, it, call, rounds>>

\* lines 160-165: the outer loop's header; line 200 when the loop is over
EventStep ==
    /\ pc = "event"
    /\ IF i >= NEv
       THEN /\ ret' = ReturnValue(track_id, hits)
            /\ pc' = "calc_tracks"
            /\ UNCHANGED <<i, current_track_id, it>>
       ELSE IF NothingEligible(iter_mask[i])
       THEN /\ i' = i + 1
            /\ UNCHANGED <<pc, ret, current_track_id, it>>
       ELSE /\ current_track_id' = ResetCounter
            /\ it' = 0
            /\ pc' = "round"
            /\ UNCHANGED <<i, ret>>
    /\ UNCHANGED <<input, tracks, tracks_slice, hit_ref, ev_ref, source_slice, dset_len,
                   round_locals,
                   iter_mask, track_id, call, rounds>>

\* lines 167-169: the round loop's header and the round's first clustering
RoundStep ==
    /\ pc = "round"
    /\ IF RoundsExhausted(it, max_iterations)
       THEN /\ i' = i + 1
            /\ pc' = "event"
            /\ UNCHANGED <<track_ids, todo, call, rounds>>
       ELSE /\ call' = [fn |-> "dbscan", ev |-> i, mask |-> MaskSet(iter_mask[i])]
            /\ rounds' = [rounds EXCEPT ![i] = @ + 1]
            /\ UNCHANGED i
            /\ IF FitRaises(Compress(xyz[i], MaskSet(iter_mask[i]), 0))
               THEN /\ pc' = "error"
                    /\ UNCHANGED <<track_ids, todo>>
               ELSE /\ track_ids' = do_dbscan(xyz[i], iter_mask[i], dbscan_min_samples)
                    /\ todo' = Labels(track_ids')
                    /\ pc' = "cluster"
    /\ UNCHANGED <<input, output, iter_mask, track_id, current_track_id, it,
                   mask, final_track_ids, subtodo>>

\* lines 171-180: the next label of the round; the size guard; the line fit
ClusterStep ==
    /\ pc = "cluster"
    /\ IF todo = {}
       THEN /\ pc' = "round_end"
            /\ UNCHANGED <<todo, mask, call>>
       ELSE LET id_ == Min(todo)
                m == LabelMask(track_ids, id_)
            IN /\ todo' = todo \ {id_}
               /\ IF SkipCluster(m)
                  THEN /\ mask' = m
                       /\ UNCHANGED <<pc, call>>
                  ELSE /\ call' = [fn |-> "ransac", ev |-> i, mask |-> MaskSet(m)]
                       /\ IF RansacRaises(Compress(xyz[i], MaskSet(m), 0))
                          THEN /\ mask' = m
                               /\ pc' = "error"
                          ELSE /\ \E inliers \in RansacOutcomes(Compress(xyz[i], MaskSet(m), 0),
                                                         ransac_residual_threshold) :
                                    mask' = ApplyInliers(m, inliers)
                               /\ pc' = "split"
    /\ UNCHANGED <<input, output, iter_mask, track_id, i, current_track_id, it,
                   track_ids, final_track_ids, subtodo, rounds>>

\* lines 182-186: an empty inlier set is dropped; the inliers are re-clustered
SplitStep ==
    /\ pc = "split"
    /\ IF np_sum(mask) < 1
       THEN /\ pc' = "cluster"
            /\ UNCHANGED <<final_track_ids, subtodo, call>>
       ELSE /\ call' = [fn |-> "dbscan", ev |-> i, mask |-> MaskSet(mask)]
            /\ IF FitRaises(Compress(xyz[i], MaskSet(mask), 0))
               THEN /\ pc' = "error"
                    /\ UNCHANGED <<final_track_ids, subtodo>>
               ELSE /\ final_track_ids' = do_dbscan(xyz[i], mask, dbscan_min_samples)
                    /\ subtodo' = Labels(final_track_ids')
                    /\ pc' = "assign"
    /\ UNCHANGED <<input, output, iter_mask, track_id, i, current_track_id, it,
                   track_ids, todo, mask, rounds>>

\* lines 188-195: one sub-cluster gets the next id and leaves the eligible set
AssignStep ==
    /\ pc = "assign"
    /\ IF subtodo = {}
       THEN /\ pc' = "cluster"
            /\ UNCHANGED <<subtodo, mask, current_track_id, track_id, iter_mask>>
       ELSE LET id_ == Min(subtodo)
                m == LabelMask(final_track_ids, id_)
            IN /\ subtodo' = subtodo \ {id_}
               /\ mask' = m
               /\ current_track_id' = NextTrackId(current_track_id)
               /\ track_id' = AssignId(track_id, i, m, current_track_id')
               /\ iter_mask' = ClearEligible(iter_mask, i, m)
               /\ UNCHANGED pc
    /\ UNCHANGED <<input, output, i, it, track_ids, todo, final_track_ids, call, rounds>>

\* lines 197-198, and the round loop's increment
RoundEnd ==
    /\ pc = "round_end"
    /\ IF BreakRound(track_ids, iter_mask[i])
       THEN /\ i' = i + 1
            /\ pc' = "event"
            /\ UNCHANGED it
       ELSE /\ it' = it + 1
            /\ pc' = "round"
            /\ UNCHANGED i
    /\ UNCHANGED <<input, output, round_locals, iter_mask, track_id,
                   current_track_id, call, rounds>>

\* ------------------------------------------------------------ calc_tracks
\* the unmasked values of a masked (N, M) array
Unmasked(ma) ==
    UNION {{ma.data[e][h] : h \in {g \in DOMAIN ma.data[e] : ~ma.mask[e][g]}} :
              e \in DOMAIN ma.data}

\* lines 217-218: the number of columns of the tracks array
NTracks(ma) ==
    IF Unmasked(ma) # {}
    THEN (IF Max(Unmasked(ma)) + 1 < 1 THEN 1 ELSE Max(Unmasked(ma)) + 1)
    ELSE 1

\* lines 223-224: the member hits of id j in event e
TrackMembers(hs, ma, e, j) ==
    {h \in DOMAIN hs[e] : ma.data[e][h] = j /\ ~ma.mask[e][h] /\ hs[e][h].valid}

\* variant: single-hit tracks kept
TooFewHitsBelowOne(n) == n < 1

\* line 225: a record is filled in only for two or more member hits
TooFewHits(n) == n < 2

\* lines 219-250: the emitted records carry nhit; a record left masked is
\* uninitialised memory (np.empty) and carries nothing that is ever read
calc_tracks(hs, ma) ==
    [e \in DOMAIN hs |-> [j \in 0 .. NTracks(ma) - 1 |->
        LET n == Cardinality(TrackMembers(hs, ma, e, j))
        IN IF TooFewHits(n) THEN [masked |-> TRUE]
           ELSE [masked |-> FALSE, nhit |-> n]]]

\* -------------------------------------------------------------------- run
\* tracks_mask: the (event, column) pairs of the unmasked records
Surviving(tr) == {c \in (DOMAIN tr) \X (DOMAIN tr[0]) : ~tr[c[1]][c[2]].masked}

\* variant: the record's column taken for its position
PlaceIndexColumn(tr, c) == c[2]

\* row-major position (0-based) of an unmasked record among the unmasked
PlaceIndex(tr, c) ==
    Cardinality({d \in Surviving(tr) :
                    d[1] < c[1] \/ (d[1] = c[1] /\ d[2] < c[2])})

\* line 117: np.place(tracks['id'], tracks_mask, np.r_[tracks_slice])
PlaceIds(tr, start) ==
    [e \in DOMAIN tr |-> [j \in DOMAIN tr[e] |->
        IF tr[e][j].masked THEN tr[e][j]
        ELSE [masked |-> FALSE, nhit |-> tr[e][j].nhit,
              id |-> start + PlaceIndex(tr, <<e, j>>)]]]

\* a column index as numpy reads it: a negative index counts from the end
Column(tr, v) == IF v < 0 THEN Cardinality(DOMAIN tr[0]) + v ELSE v

\* variant: the (track_ids != -1) term left out of the reference mask
HitRefRowsNoSentinel(hs, ma, tr) ==
    UNION {{<<tr[e][Column(tr, ma.data[e][h])].id, hs[e][h].id>> :
               h \in {g \in DOMAIN hs[e] :
                        /\ ~tr[e][Column(tr, ma.data[e][g])].masked
                        /\ hs[e][g].valid}} :
              e \in DOMAIN hs}

\* lines 121-123: the rows of the track -> hit reference
HitRefRows(hs, ma, tr) ==
    UNION {{<<tr[e][Column(tr, ma.data[e][h])].id, hs[e][h].id>> :
               h \in {g \in DOMAIN hs[e] :
                        /\ ~tr[e][Column(tr, ma.data[e][g])].masked
                        /\ ma.data[e][g] # -1
                        /\ hs[e][g].valid}} :
              e \in DOMAIN hs}

\* variant: the event id broadcast along the wrong axis
EvRefRowsByColumn(tr, first) ==
    {<<first + c[2], tr[c[1]][c[2]].id>> : c \in Surviving(tr)}

\* lines 127-128: the rows of the event -> track reference
EvRefRows(tr, first) ==
    {<<first + c[1], tr[c[1]][c[2]].id>> : c \in Surviving(tr)}

\* line 112
CalcTracks ==
    /\ pc = "calc_tracks"
    /\ tracks' = calc_tracks(hits, ret)
    /\ pc' = "reserve"
    /\ UNCHANGED <<input, ret, tracks_slice, hit_ref, ev_ref, source_slice, dset_len,
                   round_locals, iter_mask,
                   track_id, i, current_track_id, it, call, rounds>>

\* reserve_data appends to the dataset: the rows it hands out start at the
\* dataset's length, which a first run finds at any value up to MaxPrior and
\* a repeated run where the first run left it
ReserveStart == IF run_no = 1 THEN 0 .. MaxPrior ELSE {dset_len}

\* lines 113-118: the data manager hands out the next n_tracks ids
Reserve ==
    /\ pc = "reserve"
    /\ \E start \in ReserveStart :
         /\ tracks_slice' = [start |-> start, stop |-> start + Cardinality(Surviving(tracks))]
         /\ dset_len' = start + Cardinality(Surviving(tracks))
         /\ tracks' = PlaceIds(tracks, start)
    /\ pc' = "hit_ref"
    /\ UNCHANGED <<input, ret, hit_ref, ev_ref, source_slice,
                   round_locals, iter_mask,
                   track_id, i, current_track_id, it, call, rounds>>

\* lines 120-124
WriteHitRef ==
    /\ pc = "hit_ref"
    /\ hit_ref' = HitRefRows(hits, ret, tracks)
    /\ pc' = "ev_ref"
    /\ UNCHANGED <<input, ret, tracks, tracks_slice, ev_ref, source_slice, dset_len,
                   round_locals, iter_mask,
                   track_id, i, current_track_id, it, call, rounds>>

\* lines 126-129: source_slice starts at the batch's first event id
WriteEvRef ==
    /\ pc = "ev_ref"
    /\ \E first \in 0 .. MaxPrior :
         /\ source_slice' = first
         /\ ev_ref' = EvRefRows(tracks, first)
    /\ pc' = "done"
    /\ UNCHANGED <<input, ret, tracks, tracks_slice, hit_ref, dset_len,
                   round_locals, iter_mask,
                   track_id, i, current_track_id, it, call, rounds>>

Next ==
    \/ FindTracksBegin
    \/ EventStep
    \/ RoundStep
    \/ ClusterStep
    \/ SplitStep
    \/ AssignStep
    \/ RoundEnd
    \/ CalcTracks
    \/ Reserve
    \/ WriteHitRef
    \/ WriteEvRef

Spec == Init /\ [][Next]_vars

\* ------------------------------------------------------- a repeated run
\* run() called again on the same cache with the same configuration: the
\* first run's assignment is kept for comparison and the run starts over;
\* the data manager is the same object and keeps its dataset
Rerun ==
    /\ pc = "done"
    /\ run_no = 1
    /\ run_no' = 2
    /\ first_ret' = ret
    /\ pc' = "find_tracks"
    /\ iter_mask' = [e \in Ev |-> NoMask]
    /\ track_id' = [e \in Ev |-> NoRow]
    /\ i' = 0
    /\ current_track_id' = -1
    /\ it' = 0
    /\ track_ids' = NoRow
    /\ todo' = {}
    /\ mask' = NoMask
    /\ final_track_ids' = NoRow
    /\ subtodo' = {}
    /\ call' = NoCall
    /\ ret' = <<>>
    /\ tracks' = <<>>
    /\ tracks_slice' = <<>>
    /\ hit_ref' = {}
    /\ ev_ref' = {}
    /\ source_slice' = <<>>
    /\ rounds' = [e \in Ev |-> 0]
    /\ UNCHANGED <<hits, geom, dbscan_min_samples, max_iterations,
                   ransac_residual_threshold, xyp_call, dset_len>>

NextTwoRuns ==
    \/ Next
    \/ Rerun

TwoRuns == Init /\ [][NextTwoRuns]_vars

\* ------------------------------------------------------------------- xyp
\* xyp is a static pure function of two 3-vectors; its values are kept as
\* exact fractions [n, d] with d # 0, computed in the order of the code.
Frac(n, d) == [n |-> n, d |-> d]
\* integer / integer
Quot(a, b) == Frac(a, b)
\* integer * fraction
Times(a, q) == Frac(a * q.n, q.d)
\* integer + fraction
Plus(a, q) == Frac(a * q.d + q.n, q.d)

\* variant: the sign of the line parameter lost
xypNoMinus(a, c) ==
    IF a[3] = 0
    THEN <<Frac(c[1], 1), Frac(c[2], 1)>>
    ELSE LET s == Quot(c[3], a[3])
         IN <<Plus(c[1], Times(a[1], s)), Plus(c[2], Times(a[2], s))>>

\* lines 325-337
xyp(a, c) ==
    IF a[3] = 0
    THEN <<Frac(c[1], 1), Frac(c[2], 1)>>
    ELSE LET s == Quot(-c[3], a[3])
         IN <<Plus(c[1], Times(a[1], s)), Plus(c[2], Times(a[2], s))>>

Coord == (0 - MaxCoord) .. MaxCoord
Vec3 == Coord \X Coord \X Coord

\* a call of xyp on any axis and centroid with small integer components
InitXyp ==
    /\ axis \in Vec3
    /\ centroid \in Vec3
    /\ xyp_ret = <<>>
    /\ pc = "xyp"
    /\ hits = <<>>
    /\ geom = <<>>
    /\ dbscan_min_samples = 1
    /\ max_iterations = 1
    /\ ransac_residual_threshold = default_ransac_residual_threshold
    /\ iter_mask = <<>>
    /\ track_id = <<>>
    /\ i = 0
    /\ current_track_id = -1
    /\ it = 0
    /\ track_ids = <<>>
    /\ todo = {}
    /\ mask = <<>>
    /\ final_track_ids = <<>>
    /\ subtodo = {}
    /\ call = NoCall
    /\ ret = <<>>
    /\ tracks = <<>>
    /\ tracks_slice = <<>>
    /\ hit_ref = {}
    /\ ev_ref = {}
    /\ source_slice = <<>>
    /\ dset_len = <<>>
    /\ rounds = <<>>
    /\ run_no = 1
    /\ first_ret = <<>>

XypCall ==
    /\ pc = "xyp"
    /\ xyp_ret' = xyp(axis, centroid)
    /\ pc' = "xyp_done"
    /\ UNCHANGED <<hits, geom, dbscan_min_samples, max_iterations,
                   ransac_residual_threshold, run_no, first_ret,
                   axis, centroid, output, round_locals, iter_mask, track_id, i,
                   current_track_id, it, call, rounds>>

NextXyp == XypCall

SpecXyp == InitXyp /\ [][NextXyp]_vars

\* ----------------------------------------------------------------- phases
RoundPhases == {"round", "cluster", "split", "assign", "round_end"}
InFindTracks == pc \in RoundPhases \cup {"event"}
Returned == pc \in {"calc_tracks", "reserve", "hit_ref", "ev_ref", "done"}
Calculated == pc \in {"reserve", "hit_ref", "ev_ref", "done"}

ValidHits(e) == {h \in Hit : hits[e][h].valid}
HitsWithId(e, j) == {h \in ValidHits(e) : track_id[e][h] = j}

\* a step in which find_tracks calls the clustering or the line fit
LibraryCallStep ==
    \/ pc = "round" /\ pc' \in {"cluster", "error"}
    \/ pc = "cluster" /\ pc' \in {"split", "error"}
    \/ pc = "split" /\ pc' \in {"assign", "error"}

\* ---------------------------------------------------------------- claims

\* C1: every hit carries one value, a track id >= 0 (smaller than the
\* number of valid hits of its event) or -1; a masked hit is never eligible,
\* keeps -1, and is masked in the array find_tracks returns, which carries
\* the ids of the valid hits unmasked.
C1_Partition ==
    pc # "find_tracks" =>
        \A e \in Ev, h \in Hit :
            /\ track_id[e][h] \in -1 .. Cardinality(ValidHits(e)) - 1
            /\ ~hits[e][h].valid => track_id[e][h] = -1 /\ ~iter_mask[e][h]
            /\ Returned => /\ ret.data[e][h] = track_id[e][h]
                           /\ ret.mask[e][h] = ~hits[e][h].valid

\* a masked hit next to a hit that got an id, beside a valid unassigned hit
C1_Witness ==
    /\ Returned
    /\ \E e \in Ev, h \in Hit, g \in Hit, u \in Hit :
         /\ ~hits[e][h].valid /\ ret.mask[e][h] /\ ret.data[e][h] = -1
         /\ (g = h + 1 \/ h = g + 1) /\ ret.data[e][g] >= 0 /\ ~ret.mask[e][g]
         /\ hits[e][u].valid /\ ret.data[e][u] = -1

C2_Step ==
    /\ pc = "event" /\ pc' = "round" => current_track_id' = -1
    /\ pc \in RoundPhases /\ pc' \in RoundPhases => current_track_id' >= current_track_id
    /\ pc = "assign" /\ subtodo # {} => track_id' # track_id
    /\ pc # "find_tracks" /\ track_id' # track_id =>
         /\ current_track_id' = current_track_id + 1
         /\ \A h \in Hit : track_id[i][h] < current_track_id'
         /\ \A e \in Ev, h \in Hit :
              track_id'[e][h] # track_id[e][h] =>
                  e = i /\ track_id'[e][h] = current_track_id'

\* C2: the counter of an event starts at -1 and never decreases while the
\* event is processed; every sub-cluster that reaches the assign step gets
\* the counter's value plus one, an id larger than every id in use in the
\* event, so ids go up one by one from 0 and are never reused.
C2_MonotonicIds == [][C2_Step]_vars

\* the second round of an event hands out id 1 after the first handed out id 0
C2_Witness ==
    /\ pc = "assign" /\ it = 1 /\ subtodo = {}
    /\ Labels(track_ids) = {0} /\ Labels(final_track_ids) = {0}
    /\ current_track_id = 1
    /\ HitsWithId(i, 0) # {} /\ HitsWithId(i, 1) # {}

\* a measure of the work left: run, event, round, cluster, sub-cluster
Variant ==
    LET B3 == NHit + 4
        B2 == (NHit + 1) * B3 + 1
        B1 == (max_iterations + 1) * B2 + 1
        left == Cardinality(todo)
        inRound ==
            CASE pc = "round" -> B2 - 1
              [] pc = "cluster" -> left * B3 + 1
              [] pc = "split" -> left * B3 + B3 - 1
              [] pc = "assign" -> left * B3 + 2 + Cardinality(subtodo)
              [] pc = "round_end" -> 0
    IN CASE pc = "find_tracks" -> (NEv + 1) * B1
         [] pc = "event" -> (NEv - i) * B1 + B1 - 1
         [] pc \in RoundPhases -> (NEv - i) * B1 + (max_iterations - it) * B2 + inRound
         [] pc = "calc_tracks" -> 4
         [] pc = "reserve" -> 3
         [] pc = "hit_ref" -> 2
         [] pc = "ev_ref" -> 1
         [] OTHER -> 0

C3_Inv ==
    /\ \A e \in Ev : rounds[e] <= max_iterations
    /\ pc \in RoundPhases => it <= max_iterations
    /\ pc \in RoundPhases \ {"round"} => it < max_iterations
    /\ Returned => \A e \in Ev, h \in Hit : iter_mask[e][h] => ret.data[e][h] = -1

C3_Step ==
    /\ Variant' < Variant
    /\ pc = "round" /\ it >= max_iterations =>
         /\ pc' = "event" /\ i' = i + 1
         /\ track_id' = track_id /\ iter_mask' = iter_mask

\* C3: no event gets more than max_iterations rounds, and every step uses up
\* some of a bounded amount of work left, so find_tracks stops; when the
\* round loop is exhausted the event is left as it is, without an error, and
\* the hits still eligible at the end are returned with id -1.
C3_BoundedRounds == []C3_Inv /\ [][C3_Step]_vars

\* the cap is hit while hits of the event are still eligible
C3_Witness ==
    /\ pc = "round" /\ it = max_iterations /\ max_iterations >= 2
    /\ rounds[i] = max_iterations
    /\ np_any(iter_mask[i])

C4_Step ==
    pc # "find_tracks" =>
        /\ \A e \in Ev, h \in Hit :
             track_id[e][h] # -1 =>
                 track_id'[e][h] = track_id[e][h] /\ ~iter_mask'[e][h]
        /\ LibraryCallStep =>
             \A h \in call'.mask : track_id'[call'.ev][h] = -1 /\ iter_mask'[call'.ev][h]

\* C4: a hit that has an id keeps that id in every later step and is never
\* eligible again; the hits handed to the clustering and to the line fit are
\* eligible hits without an id.
C4_AssignedIsFinal == [][C4_Step]_vars

\* a later round clusters the rest of an event that already has assigned hits
C4_Witness ==
    /\ pc = "cluster" /\ it >= 1
    /\ call.fn = "dbscan" /\ call.ev = i /\ Cardinality(call.mask) >= 3
    /\ \E h \in Hit : track_id[i][h] >= 0

\* C5: every record calc_tracks emits has nhit >= 2, equal to the number of
\* valid hits of the event that carry the record's id; an id carried by one
\* hit only has a column in the tracks array but its record stays masked;
\* an event with exactly one valid hit has no unmasked record.
C5_MinTwoHits ==
    Calculated =>
        \A e \in Ev :
            /\ \A j \in DOMAIN tracks[e] :
                 ~tracks[e][j].masked =>
                     /\ tracks[e][j].nhit >= 2
                     /\ tracks[e][j].nhit = Cardinality(HitsWithId(e, j))
            /\ \A j \in 0 .. NHit - 1 :
                 Cardinality(HitsWithId(e, j)) = 1 =>
                     j \in DOMAIN tracks[e] /\ tracks[e][j].masked
            /\ Cardinality(ValidHits(e)) = 1 =>
                 \A j \in DOMAIN tracks[e] : tracks[e][j].masked

\* an id with a single member hit beside a surviving track
C5_Witness ==
    /\ pc = "done"
    /\ \E e \in Ev, j \in 0 .. NHit - 1 : Cardinality(HitsWithId(e, j)) = 1
    /\ \E e \in Ev : \E j \in DOMAIN tracks[e] : ~tracks[e][j].masked

\* C6: the track -> hit relation has one pair per hit that is valid, has an
\* id other than -1 shared with at least one more valid hit of its event,
\* and no other pair; the pair carries the output id of the record of the
\* hit's own event and id.
C6_HitRef ==
    pc \in {"ev_ref", "done"} =>
        /\ \A r \in hit_ref : \E e \in Ev, h \in Hit : hits[e][h].id = r[2]
        /\ \A e \in Ev, h \in Hit :
             LET rows == {r \in hit_ref : r[2] = hits[e][h].id}
                 want == /\ hits[e][h].valid
                         /\ track_id[e][h] # -1
                         /\ Cardinality(HitsWithId(e, track_id[e][h])) >= 2
             IN IF want
                THEN rows = {<<tracks[e][track_id[e][h]].id, hits[e][h].id>>}
                ELSE rows = {}

\* pairs are written while one hit is unassigned and another's id was pruned
C6_Witness ==
    /\ pc = "done" /\ hit_ref # {}
    /\ \E e \in Ev, h \in Hit : hits[e][h].valid /\ track_id[e][h] = -1
    /\ \E e \in Ev, j \in 0 .. NHit - 1 : Cardinality(HitsWithId(e, j)) = 1

\* C7: a repeated run on the same hits with the same configuration returns
\* the same hit-to-id assignment as the first run.
C7_Determinism ==
    run_no = 2 /\ Returned => ret = first_ret

C8_Step ==
    /\ InFindTracks =>
         \A e \in Ev : e # i => track_id'[e] = track_id[e] /\ iter_mask'[e] = iter_mask[e]
    /\ LibraryCallStep => call'.ev = i /\ call'.mask \subseteq MaskSet(iter_mask[i])
    /\ pc = "event" /\ pc' = "round" => current_track_id' = -1 /\ it' = 0

\* find_tracks on one event taken alone, as a function of that event's row:
\* the sub-clusters of one fit, in label order, each given the next id
RECURSIVE AloneAssign(_, _, _)
AloneAssign(fl, sub, st) ==
    IF sub = {} THEN st
    ELSE LET m == LabelMask(fl, Min(sub))
         IN AloneAssign(fl, sub \ {Min(sub)},
                [elig |-> [h \in DOMAIN st.elig |-> st.elig[h] /\ ~m[h]],
                 ids  |-> [h \in DOMAIN st.ids |-> IF m[h] THEN st.c + 1 ELSE st.ids[h]],
                 c    |-> st.c + 1])

\* the clusters of one round, in label order, for every outcome of the fits
RECURSIVE AloneClusters(_, _, _, _)
AloneClusters(row, lab, left, st) ==
    IF left = {} THEN {st}
    ELSE LET m == LabelMask(lab, Min(left))
             rest == left \ {Min(left)}
         IN IF np_sum(m) <= default_ransac_min_samples
            THEN AloneClusters(row, lab, rest, st)
            ELSE UNION {
                   LET inl == ApplyInliers(m, inliers)
                       fl == do_dbscan(row, inl, dbscan_min_samples)
                   IN IF np_sum(inl) < 1
                      THEN AloneClusters(row, lab, rest, st)
                      ELSE AloneClusters(row, lab, rest, AloneAssign(fl, Labels(fl), st)) :
                   inliers \in RansacOutcomes(Compress(row, MaskSet(m), 0),
                                              ransac_residual_threshold)}

\* the rounds of the event, and the id rows it can end with
RECURSIVE AloneRounds(_, _, _)
AloneRounds(row, n, st) ==
    IF n >= max_iterations THEN {st.ids}
    ELSE LET lab == do_dbscan(row, st.elig, dbscan_min_samples)
         IN UNION {IF (\A h \in DOMAIN lab : lab[h] = -1) \/ ~np_any(t.elig)
                   THEN {t.ids}
                   ELSE AloneRounds(row, n + 1, t) :
                   t \in AloneClusters(row, lab, Labels(lab), st)}

AloneOutcomes(e) ==
    LET valid == [h \in Hit |-> hits[e][h].valid]
    IN IF ~np_any(valid) THEN {[h \in Hit |-> -1]}
       ELSE AloneRounds(xyz[e], 0, [elig |-> valid, ids |-> [h \in Hit |-> -1], c |-> -1])

\* the assignment returned for each event is one the event gets when it is
\* the only event processed
C8_Alone ==
    pc = "calc_tracks" => \A e \in Ev : ret.data[e] \in AloneOutcomes(e)

\* C8: while event i is processed, the eligibility and the ids of every
\* other event stay as they are, the clustering and the line fit are given
\* eligible hits of event i only, and the event starts from a counter of -1
\* and a round count of 0; the assignment an event ends with is one it gets
\* when processed alone, whatever the other events of the batch are.
C8_EventFrame == [][C8_Step]_vars /\ []C8_Alone

\* the second event gets an id while the first event has assigned hits
C8_Witness ==
    /\ pc = "assign" /\ i = 1
    /\ \E h \in Hit : track_id[0][h] >= 0
    /\ \E h \in Hit : track_id[1][h] >= 0

\* C9: an event without a valid hit gets no round and no library call, its
\* hits keep -1, it has no unmasked track record, and it is never the event
\* in which the run fails.
C9_EmptyEvent ==
    pc # "find_tracks" =>
        \A e \in Ev :
            ValidHits(e) = {} =>
                /\ rounds[e] = 0
                /\ call.ev # e
                /\ \A h \in Hit : track_id[e][h] = -1
                /\ pc = "error" => i # e
                /\ pc \in RoundPhases => i # e
                /\ Calculated => \A j \in DOMAIN tracks[e] : tracks[e][j].masked

\* a finished batch of an empty event and an event with a track
C9_Witness ==
    /\ pc = "done"
    /\ \E e \in Ev : ValidHits(e) = {}
    /\ \E e \in Ev : \E j \in DOMAIN tracks[e] : ~tracks[e][j].masked

\* C10: the clustering and the line fit are only ever called on points
\* whose coordinates are all finite.
C10_FiniteInputs ==
    call.fn # "none" => \A h \in call.mask : xyz[call.ev][h].fin

C11_Step ==
    /\ pc = "round_end" /\ pc' = "event" =>
         (\A h \in Hit : track_ids[h] = -1) \/ ~np_any(iter_mask[i])
    /\ pc = "round_end" /\ Labels(track_ids) # {} /\ np_any(iter_mask[i]) =>
         pc' = "round" /\ it' = it + 1 /\ i' = i
    /\ pc \in RoundPhases /\ i' # i =>
         \/ pc = "round_end"
         \/ pc = "round" /\ it = max_iterations /\ rounds[i] = max_iterations

\* C11: the round loop of an event is left from the end of a round only when
\* the round's first clustering found no cluster or no hit is eligible any
\* more; a round that found a cluster and left a hit eligible is followed by
\* the next round, whether or not it assigned a hit; the only other way out
\* is the exhausted loop, after exactly max_iterations rounds.
C11_EarlyExit == [][C11_Step]_vars

\* the loop is exhausted: every round found a cluster, no hit got an id
C11_Witness ==
    /\ pc = "round" /\ it = max_iterations /\ max_iterations >= 2
    /\ rounds[i] = max_iterations
    /\ Labels(track_ids) # {}
    /\ ValidHits(i) # {}
    /\ \A h \in ValidHits(i) : track_id[i][h] = -1 /\ iter_mask[i][h]

C12_Inv ==
    /\ call.fn = "ransac" => Cardinality(call.mask) > default_ransac_min_samples
    /\ pc = "error" => call.fn = "dbscan"

C12_Step ==
    /\ pc = "cluster" /\ pc' \in {"split", "error"} =>
         /\ call'.fn = "ransac"
         /\ call'.mask = MaskSet(LabelMask(track_ids, Min(todo)))
    /\ (/\ pc = "cluster" /\ todo # {}
        /\ np_sum(LabelMask(track_ids, Min(todo))) <= default_ransac_min_samples) =>
         /\ pc' = "cluster" /\ todo' = todo \ {Min(todo)}
         /\ call' = call
         /\ track_id' = track_id /\ iter_mask' = iter_mask
         /\ current_track_id' = current_track_id

\* C12: the line fit is only called on a whole step-1 cluster of more than
\* ransac_min_samples hits, so the run never fails inside the line fit; a
\* cluster of at most ransac_min_samples hits is passed over without a
\* library call, its hits keep id -1 and stay eligible, and the loop goes
\* on with the next label.
C12_FitGuard == []C12_Inv /\ [][C12_Step]_vars

\* a small cluster was just passed over and another cluster is still to come
C12_Witness ==
    /\ pc = "cluster" /\ todo # {}
    /\ np_sum(mask) \in 1 .. default_ransac_min_samples
    /\ \E l \in Labels(track_ids) \ todo : mask = LabelMask(track_ids, l)
    /\ \A h \in MaskSet(mask) : iter_mask[i][h] /\ track_id[i][h] = -1
    /\ np_sum(LabelMask(track_ids, Min(todo))) > default_ransac_min_samples

\* the hits of event i whose id or eligibility a step changes
Touched ==
    {h \in Hit : track_id'[i][h] # track_id[i][h] \/ iter_mask'[i][h] # iter_mask[i][h]}

\* the hits of S within the residual threshold of the line through a and b
OnLine(S, a, b) ==
    {h \in S : IsInlier(xyz[i][a], xyz[i][b], xyz[i][h], ransac_residual_threshold)}

C13_Step ==
    /\ pc \in RoundPhases /\ Touched # {} =>
         /\ pc = "assign"
         /\ call.fn = "dbscan" /\ call.ev = i
         /\ \A h \in Touched :
              /\ iter_mask[i][h] /\ track_id[i][h] = -1
              /\ track_ids[h] # -1
              /\ h \in call.mask
              /\ final_track_ids[h] # -1
              /\ track_id'[i][h] = current_track_id' /\ ~iter_mask'[i][h]
         /\ \E l \in Labels(track_ids) :
              LET cluster == MaskSet(LabelMask(track_ids, l))
              IN /\ Cardinality(cluster) > default_ransac_min_samples
                 /\ \E a \in cluster, b \in cluster :
                      a < b /\ call.mask = OnLine(cluster, a, b)
    /\ pc = "split" /\ np_sum(mask) < 1 =>
         /\ call.fn = "ransac" /\ call.ev = i
         /\ pc' = "cluster" /\ call' = call /\ todo' = todo
         /\ Touched = {}
         /\ \A h \in call.mask : iter_mask'[i][h] /\ track_id'[i][h] = -1

\* C13: a step of a round changes the id or the eligibility of a hit only
\* in the assign step, and only for hits that were eligible and clustered by
\* the round's first clustering, lie in the consensus set of a line through
\* two hits of their cluster of more than ransac_min_samples hits, and got
\* a label in the re-clustering of that set; all other hits are left as
\* they are; when the fit returns no inlier (a residual threshold that no
\* residual is below) the loop goes on to the next cluster without a
\* re-clustering and the cluster's hits keep id -1 and stay eligible.
C13_AssignOnlyInliers == [][C13_Step]_vars

\* the line fit of a cluster of more than ransac_min_samples hits came
\* back without inliers and the loop went on to the next cluster: no
\* re-clustering was called and the whole cluster is still eligible
C13_Witness ==
    /\ pc = "cluster" /\ todo # {}
    /\ call.fn = "ransac" /\ call.ev = i
    /\ Cardinality(call.mask) > default_ransac_min_samples
    /\ np_sum(mask) < 1
    /\ \A h \in call.mask : iter_mask[i][h] /\ track_id[i][h] = -1

\* an id was just given to part of a cluster while a fit outlier of the
\* cluster and an inlier that is noise in the re-clustering stay eligible
C13_AssignReached ==
    /\ pc = "assign" /\ current_track_id >= 0
    /\ HitsWithId(i, current_track_id) # {}
    /\ call.fn = "dbscan"
    /\ \E h \in call.mask :
         final_track_ids[h] = -1 /\ iter_mask[i][h] /\ track_id[i][h] = -1
    /\ \E h \in Hit \ call.mask, g \in call.mask :
         /\ track_ids[h] # -1 /\ track_ids[h] = track_ids[g]
         /\ iter_mask[i][h] /\ track_id[i][h] = -1
         /\ track_id[i][g] = current_track_id

\* C14: output ids exist only once find_tracks and calc_tracks are through
\* with every event; the reserved range is as long as the number of
\* unmasked records, every unmasked record gets an id of the range, no two
\* records of any events share one, every id of the range is used, and a
\* masked record has none.
C14_UniqueOutputIds ==
    /\ pc = "reserve" =>
         /\ i = NEv
         /\ \A e \in Ev : \A j \in DOMAIN tracks[e] : "id" \notin DOMAIN tracks[e][j]
    /\ pc \in {"hit_ref", "ev_ref", "done"} =>
         /\ i = NEv
         /\ tracks_slice.stop - tracks_slice.start = Cardinality(Surviving(tracks))
         /\ \A e \in Ev : \A j \in DOMAIN tracks[e] :
              "id" \in DOMAIN tracks[e][j] <=> ~tracks[e][j].masked
         /\ \A c \in Surviving(tracks) :
              tracks[c[1]][c[2]].id \in tracks_slice.start .. tracks_slice.stop - 1
         /\ \A c \in Surviving(tracks), d \in Surviving(tracks) :
              c # d => tracks[c[1]][c[2]].id # tracks[d[1]][d[2]].id
         /\ \A k \in tracks_slice.start .. tracks_slice.stop - 1 :
              \E c \in Surviving(tracks) : tracks[c[1]][c[2]].id = k

\* two events with a surviving track each, numbered from a used dataset
C14_Witness ==
    /\ pc = "done" /\ tracks_slice.start >= 1
    /\ \E c \in Surviving(tracks), d \in Surviving(tracks) : c[1] # d[1]

\* C15: the event -> track relation has, for every unmasked record, the one
\* pair of its output id with the id of its event, and no other pair.
C15_EvRef ==
    pc = "done" =>
        /\ \A r \in ev_ref :
             \E c \in Surviving(tracks) :
                 r = <<source_slice + c[1], tracks[c[1]][c[2]].id>>
        /\ \A e \in Ev : \A j \in DOMAIN tracks[e] :
             LET rows == {r \in ev_ref : r[1] = source_slice + e}
                 mine == IF Cardinality(HitsWithId(e, j)) >= 2
                         THEN {r \in rows : r[2] = tracks[e][j].id}
                         ELSE {}
             IN /\ Cardinality(HitsWithId(e, j)) >= 2 => Cardinality(mine) = 1
                /\ Cardinality(rows) =
                     Cardinality({k \in DOMAIN tracks[e] : Cardinality(HitsWithId(e, k)) >= 2})
        /\ Cardinality(ev_ref) = Cardinality(Surviving(tracks))

\* the second event of a batch that starts at event id 1 has a track, and
\* some record of the batch is masked
C15_Witness ==
    /\ pc = "done" /\ source_slice = 1
    /\ \E r \in ev_ref : r[1] = 2
    /\ \E e \in Ev : \E j \in DOMAIN tracks[e] : tracks[e][j].masked

\* C16: for an axis with axis_z = 0 xyp returns the centroid's (x, y); for
\* axis_z # 0 the returned (x, y) with z = 0 is a point of the line through
\* the centroid along the axis, the one at parameter s = -centroid_z/axis_z.
C16_PlaneIntersection ==
    pc = "xyp_done" =>
        LET x == xyp_ret[1]
            y == xyp_ret[2]
            \* d * (point - centroid), with d the common denominator x.d * y.d
            dx == (x.n - centroid[1] * x.d) * y.d
            dy == (y.n - centroid[2] * y.d) * x.d
            dz == (0 - centroid[3]) * x.d * y.d
        IN /\ x.d # 0 /\ y.d # 0
           /\ axis[3] = 0 =>
                /\ x.n = centroid[1] * x.d
                /\ y.n = centroid[2] * y.d
           /\ axis[3] # 0 =>
                \* point - centroid = s * axis with s = -centroid_z / axis_z
                /\ dx * axis[3] = dz * axis[1]
                /\ dy * axis[3] = dz * axis[2]

\* a call returned for a line that crosses the plane away from its centroid
C16_Witness ==
    /\ pc = "xyp_done"
    /\ axis[3] # 0 /\ axis[1] # 0 /\ axis[2] # 0
    /\ centroid[3] # 0
    /\ xyp_ret[1].n # centroid[1] * xyp_ret[1].d

\* C17: once find_tracks has set up its arrays, at every round boundary and
\* at the end, a hit is eligible exactly when it is valid and its track id
\* is -1: eligible and assigned hits are disjoint and cover the valid hits.
C17_EligibleIffUnassigned ==
    (InFindTracks \/ Returned \/ pc = "error") =>
        \A e \in Ev :
            LET eligible == MaskSet(iter_mask[e])
                assigned == {h \in Hit : track_id[e][h] # -1}
            IN /\ \A h \in Hit :
                    iter_mask[e][h] <=> (hits[e][h].valid /\ track_id[e][h] = -1)
               /\ eligible \cap assigned = {}
               /\ eligible \cup assigned = ValidHits(e)

\* a second round begins on an event that has an assigned hit, a hit still
\* eligible and a masked hit
C17_Witness ==
    /\ pc = "round" /\ it >= 1
    /\ \E h \in Hit : track_id[i][h] >= 0
    /\ \E h \in Hit : iter_mask[i][h]
    /\ \E h \in Hit : ~hits[i][h].valid

\* the ids carried by the hits of event e
IdsInUse(e) == {track_id[e][h] : h \in Hit} \ {-1}

\* C18: within an event the ids carried by hits are exactly 0 .. counter, an
\* id once given to hits keeps those hits, and calc_tracks has a column for
\* every id in use.
C18_Inv ==
    /\ pc \in RoundPhases => IdsInUse(i) = 0 .. current_track_id
    /\ (InFindTracks \/ Returned) =>
         \A e \in Ev :
             /\ IdsInUse(e) = 0 .. Cardinality(IdsInUse(e)) - 1
             /\ \A j \in IdsInUse(e) : HitsWithId(e, j) # {}
    /\ Calculated =>
         \A e \in Ev :
             /\ IdsInUse(e) \subseteq DOMAIN tracks[e]
             /\ \A j \in IdsInUse(e) :
                  tracks[e][j].masked <=> Cardinality(HitsWithId(e, j)) < 2

C18_Step ==
    (InFindTracks /\ pc' # "find_tracks") =>
        \A e \in Ev : \A j \in 0 .. NHit :
            HitsWithId(e, j) # {} => HitsWithId(e, j)' = HitsWithId(e, j)

C18_DenseIds == []C18_Inv /\ [][C18_Step]_vars

\* the run ended with an event whose hits carry the ids 0 and 1, both with
\* a column in tracks, next to an event with fewer ids
C18_Witness ==
    /\ pc = "done"
    /\ \E e \in Ev : IdsInUse(e) = {0, 1} /\ {0, 1} \subseteq DOMAIN tracks[e]
    /\ \E e \in Ev : Cardinality(IdsInUse(e)) < 2

====
